---- MODULE Spec2Model ----
(***************************************************************************)
(* ABCU Course Planner (ProjectTwo.cpp).                                   *)
(*                                                                         *)
(* A std::string is a sequence of character codes (unsigned char values),  *)
(* so that comparison, trimming, splitting and upper-casing are computed   *)
(* character by character as the C++ library does.  The binary search tree *)
(* is a heap of TreeNode records addressed by node ids; NULL is nullptr.   *)
(***************************************************************************)
EXTENDS Integers, Sequences, FiniteSets, TLC

VARIABLES heap,        \* allocated TreeNodes: id -> [courseData, leftChild, rightChild]
          root,        \* CourseBST::root
          released,    \* node ids handed to delete by the latest operation, in order
          dataLoaded,  \* main: bool dataLoaded
          fileName,    \* main: string fileName (the file the user last named)
          out,         \* console output of the latest operation
          calls,       \* CourseBST methods invoked by the latest operation
          lastOp,      \* the latest operation and its input
          everLoaded,  \* history: some load has succeeded
          inserted,    \* history: course numbers passed to insert since the last clear
          input,       \* loader: lines of the open stream not yet read
          lineNumber,  \* loader: int lineNumber
          pc           \* position of the running program

vars == <<heap, root, released, dataLoaded, fileName, out, calls, lastOp,
          everLoaded, inserted, input, lineNumber, pc>>

----------------------------------------------------------------------------
(* Bounds *)

MaxLines == 2      \* lines per input file
MaxNodes == 3      \* tree nodes in the store-level specification
MaxLineLen == 7    \* characters per line in the line-level specification

----------------------------------------------------------------------------
(* Characters and strings *)

UpperLetters == <<"A","B","C","D","E","F","G","H","I","J","K","L","M",
                  "N","O","P","Q","R","S","T","U","V","W","X","Y","Z">>
LowerLetters == <<"a","b","c","d","e","f","g","h","i","j","k","l","m",
                  "n","o","p","q","r","s","t","u","v","w","x","y","z">>
Digits == <<"0","1","2","3","4","5","6","7","8","9">>

\* ASCII code of a one-character literal.
Ord(c) ==
    IF \E i \in 1..26 : UpperLetters[i] = c
      THEN 64 + (CHOOSE i \in 1..26 : UpperLetters[i] = c)
    ELSE IF \E i \in 1..26 : LowerLetters[i] = c
      THEN 96 + (CHOOSE i \in 1..26 : LowerLetters[i] = c)
    ELSE IF \E i \in 1..10 : Digits[i] = c
      THEN 47 + (CHOOSE i \in 1..10 : Digits[i] = c)
    ELSE CASE c = " "  -> 32
           [] c = "\t" -> 9
           [] c = "\n" -> 10
           [] c = "\r" -> 13
           [] c = ","  -> 44

\* A string literal, written as the tuple of its characters.
Str(t) == [i \in 1..Len(t) |-> Ord(t[i])]

EmptyString == <<>>

Comma == 44

\* The characters trim() strips: " \t\r\n".
Whitespace == {32, 9, 13, 10}

\* std::string operator< : lexicographic comparison of the character codes.
RECURSIVE StrLess(_, _)
StrLess(a, b) ==
    IF b = <<>> THEN FALSE
    ELSE IF a = <<>> THEN TRUE
    ELSE IF a[1] # b[1] THEN a[1] < b[1]
    ELSE StrLess(Tail(a), Tail(b))

\* trim(s): drop leading and trailing whitespace.
Trim(s) ==
    LET keep == {i \in 1..Len(s) : s[i] \notin Whitespace}
    IN  IF keep = {} THEN <<>>
        ELSE LET start == CHOOSE i \in keep : \A j \in keep : i <= j
                 end   == CHOOSE i \in keep : \A j \in keep : j <= i
             IN  SubSeq(s, start, end)

\* split(line, delimiter): std::getline on a stringstream until it fails.
\* getline fails when it extracts nothing, i.e. when the stream is at its
\* end, so no token follows a trailing delimiter and "" yields no token.
RECURSIVE Split(_, _)
Split(line, delimiter) ==
    IF line = <<>> THEN <<>>
    ELSE LET hits == {i \in 1..Len(line) : line[i] = delimiter}
         IN  IF hits = {} THEN <<line>>
             ELSE LET q == CHOOSE i \in hits : \A j \in hits : i <= j
                  IN  <<SubSeq(line, 1, q - 1)>>
                      \o Split(SubSeq(line, q + 1, Len(line)), delimiter)

\* toupper in the "C" locale.
ToUpperChar(c) == IF c >= 97 /\ c <= 122 THEN c - 32 ELSE c

\* toUpper(s)
ToUpper(s) == [i \in 1..Len(s) |-> ToUpperChar(s[i])]

----------------------------------------------------------------------------
(* Course, TreeNode, CourseBST *)

NULL == 0

MakeCourse(number, title, prereqs) ==
    [courseNumber |-> number, courseTitle |-> title, prerequisites |-> prereqs]

\* TreeNode(const Course&)
TreeNode(course) == [courseData |-> course, leftChild |-> NULL, rightChild |-> NULL]

\* new TreeNode: the lowest free address.
NewId(h) ==
    CHOOSE i \in 1..(Cardinality(DOMAIN h) + 1) :
        i \notin DOMAIN h /\ \A j \in 1..(i - 1) : j \in DOMAIN h

\* insertHelper that links an equal key into the right subtree.
RECURSIVE InsertHelperDuplicate(_, _, _)
InsertHelperDuplicate(h, node, newCourse) ==
    IF node = NULL
      THEN LET id == NewId(h)
           IN  [heap |-> h @@ (id :> TreeNode(newCourse)), node |-> id]
    ELSE IF StrLess(newCourse.courseNumber, h[node].courseData.courseNumber)
      THEN LET r == InsertHelperDuplicate(h, h[node].leftChild, newCourse)
           IN  [heap |-> [r.heap EXCEPT ![node].leftChild = r.node], node |-> node]
    ELSE LET r == InsertHelperDuplicate(h, h[node].rightChild, newCourse)
         IN  [heap |-> [r.heap EXCEPT ![node].rightChild = r.node], node |-> node]

\* insertHelper(TreeNode*& node, newCourse): the heap after the call and the
\* value left in the reference parameter.
RECURSIVE InsertHelper(_, _, _)
InsertHelper(h, node, newCourse) ==
    IF node = NULL
      THEN LET id == NewId(h)
           IN  [heap |-> h @@ (id :> TreeNode(newCourse)), node |-> id]
    ELSE IF StrLess(newCourse.courseNumber, h[node].courseData.courseNumber)
      THEN LET r == InsertHelper(h, h[node].leftChild, newCourse)
           IN  [heap |-> [r.heap EXCEPT ![node].leftChild = r.node], node |-> node]
    ELSE IF StrLess(h[node].courseData.courseNumber, newCourse.courseNumber)
      THEN LET r == InsertHelper(h, h[node].rightChild, newCourse)
           IN  [heap |-> [r.heap EXCEPT ![node].rightChild = r.node], node |-> node]
    ELSE [heap |-> [h EXCEPT ![node].courseData.courseTitle = newCourse.courseTitle,
                             ![node].courseData.prerequisites = newCourse.prerequisites],
          node |-> node]

\* searchHelper(node, targetNumber): the node holding the course, or NULL.
RECURSIVE SearchHelper(_, _, _)
SearchHelper(h, node, targetNumber) ==
    IF node = NULL THEN NULL
    ELSE IF targetNumber = h[node].courseData.courseNumber THEN node
    ELSE IF StrLess(targetNumber, h[node].courseData.courseNumber)
      THEN SearchHelper(h, h[node].leftChild, targetNumber)
    ELSE SearchHelper(h, h[node].rightChild, targetNumber)

\* One line of console output: a tag and its arguments.
Msg(m, n, a, b) == [msg |-> m, n |-> n, a |-> a, b |-> b]

\* inOrderHelper that prints the node before its left subtree.
RECURSIVE InOrderHelperPreOrder(_, _)
InOrderHelperPreOrder(h, node) ==
    IF node = NULL THEN <<>>
    ELSE <<Msg("course", 0, h[node].courseData.courseNumber,
                            h[node].courseData.courseTitle)>>
         \o InOrderHelperPreOrder(h, h[node].leftChild)
         \o InOrderHelperPreOrder(h, h[node].rightChild)

\* inOrderHelper(node): the lines "<number>, <title>" it prints.
RECURSIVE InOrderHelper(_, _)
InOrderHelper(h, node) ==
    IF node = NULL THEN <<>>
    ELSE InOrderHelper(h, h[node].leftChild)
         \o <<Msg("course", 0, h[node].courseData.courseNumber,
                               h[node].courseData.courseTitle)>>
         \o InOrderHelper(h, h[node].rightChild)

\* printInOrder()
PrintInOrder(h, r) ==
    IF r = NULL THEN <<Msg("no_courses", 0, <<>>, <<>>)>>
    ELSE InOrderHelper(h, r)

\* clearHelper that does not descend into the right subtree.
RECURSIVE ClearHelperLeftOnly(_, _)
ClearHelperLeftOnly(h, node) ==
    IF node = NULL THEN <<>>
    ELSE ClearHelperLeftOnly(h, h[node].leftChild) \o <<node>>

\* clearHelper(node): the nodes it deletes, in the order of the deletes.
RECURSIVE ClearHelper(_, _)
ClearHelper(h, node) ==
    IF node = NULL THEN <<>>
    ELSE ClearHelper(h, h[node].leftChild)
         \o ClearHelper(h, h[node].rightChild)
         \o <<node>>

Range(s) == {s[i] : i \in 1..Len(s)}

\* clear() that resets root without deleting the nodes.
ClearStoreLeak(h, r) == [heap |-> h, root |-> NULL, released |-> <<>>]

\* clear(): the store after the call and the deletes performed.
ClearStore(h, r) ==
    LET del == ClearHelper(h, r)
    IN  [heap |-> [id \in (DOMAIN h) \ Range(del) |-> h[id]],
         root |-> NULL,
         released |-> del]

\* insert(newCourse)
InsertStore(h, r, newCourse) ==
    LET res == InsertHelper(h, r, newCourse)
    IN  [heap |-> res.heap, root |-> res.node]

\* search(targetNumber)
SearchStore(h, r, targetNumber) == SearchHelper(h, r, targetNumber)

----------------------------------------------------------------------------
(* Loader *)

\* The store together with the trace of the operation in progress.
StoreState(h, r, rel, o, c, ins) ==
    [heap |-> h, root |-> r, released |-> rel, out |-> o, calls |-> c, inserted |-> ins]

\* The prerequisite loop that stores every remaining token, trimmed.
RECURSIVE CollectPrerequisitesKeepEmpty(_, _)
CollectPrerequisitesKeepEmpty(tokens, i) ==
    IF i > Len(tokens) THEN <<>>
    ELSE <<Trim(tokens[i])>> \o CollectPrerequisitesKeepEmpty(tokens, i + 1)

\* for (i = 2; i < tokens.size(); ++i): the prerequisites pushed from
\* tokens[i-1..] (tokens are numbered from 1 here).
RECURSIVE CollectPrerequisites(_, _)
CollectPrerequisites(tokens, i) ==
    IF i > Len(tokens) THEN <<>>
    ELSE LET prereqId == Trim(tokens[i])
         IN  (IF prereqId # <<>> THEN <<prereqId>> ELSE <<>>)
             \o CollectPrerequisites(tokens, i + 1)

\* The Course built from the tokens of a line with at least two tokens.
ParseCourse(tokens) ==
    MakeCourse(Trim(tokens[1]), Trim(tokens[2]), CollectPrerequisites(tokens, 3))

\* The body of the while (getline(inputFile, line)) loop for one line.
ProcessLine(st, line, n) ==
    IF Trim(line) = <<>> THEN st
    ELSE LET tokens == Split(line, Comma)
         IN  IF Len(tokens) < 2
               THEN [st EXCEPT !.out = @ \o <<Msg("format_error", n, <<>>, <<>>),
                                               Msg("offending_line", 0, line, <<>>)>>]
             ELSE LET course == ParseCourse(tokens)
                  IN  IF course.courseNumber # <<>> /\ course.courseTitle # <<>>
                        THEN LET res == InsertStore(st.heap, st.root, course)
                             IN  [st EXCEPT !.heap = res.heap,
                                            !.root = res.root,
                                            !.calls = @ \cup {"insert"},
                                            !.inserted = @ \cup {course.courseNumber}]
                      ELSE [st EXCEPT !.out = @ \o <<Msg("missing_field", n, <<>>, <<>>)>>]

\* The loop leaving at the first line with fewer than two tokens.
RECURSIVE LoadLinesStopOnError(_, _, _)
LoadLinesStopOnError(st, lines, n) ==
    IF n > Len(lines) THEN st
    ELSE IF Trim(lines[n]) # <<>> /\ Len(Split(lines[n], Comma)) < 2
      THEN ProcessLine(st, lines[n], n)
    ELSE LoadLinesStopOnError(ProcessLine(st, lines[n], n), lines, n + 1)

\* while (getline(inputFile, line)): lines n.. of the file, in order.
RECURSIVE LoadLines(_, _, _)
LoadLines(st, lines, n) ==
    IF n > Len(lines) THEN st
    ELSE LoadLines(ProcessLine(st, lines[n], n), lines, n + 1)

\* A file name typed by the user.  A readable file is identified by its
\* lines; "missing" names a file that cannot be opened; "" is the empty name.
File(name, lines) == [name |-> name, lines |-> lines]

NoFile == File("", <<>>)

\* inputFile.is_open()
IsOpen(file) == file.name = "data"

\* loadCoursesFromFile(fileName, tree): the store and output after the call
\* and the value returned.
LoadCoursesFromFile(file, h, r, ins) ==
    IF ~IsOpen(file)
      THEN [st |-> StoreState(h, r, <<>>, <<Msg("open_error", 0, <<>>, <<>>)>>, {}, ins),
            result |-> FALSE]
    ELSE LET cleared == ClearStore(h, r)
             st0 == StoreState(cleared.heap, cleared.root, cleared.released,
                               <<>>, {"clear"}, {})
             st1 == LoadLines(st0, file.lines, 1)
         IN  [st |-> [st1 EXCEPT !.out = @ \o <<Msg("loaded", 0, <<>>, <<>>)>>],
              result |-> TRUE]

----------------------------------------------------------------------------
(* Reporter *)

\* The loop over found->prerequisites, from position i on.
RECURSIVE PrintPrerequisites(_, _, _, _)
PrintPrerequisites(h, r, prereqs, i) ==
    IF i > Len(prereqs) THEN <<>>
    ELSE LET prereqId == ToUpper(prereqs[i])
             prereqCourse == SearchStore(h, r, prereqId)
         IN  <<IF prereqCourse # NULL
                 THEN Msg("prereq", 0, h[prereqCourse].courseData.courseNumber,
                                       h[prereqCourse].courseData.courseTitle)
               ELSE Msg("prereq_not_in_data", 0, prereqId, <<>>)>>
             \o PrintPrerequisites(h, r, prereqs, i + 1)

\* printCourseInformation(tree, targetNumber): the lines it prints.
PrintCourseInformation(h, r, targetNumber) ==
    LET searchNumber == ToUpper(targetNumber)
        found == SearchStore(h, r, searchNumber)
    IN  IF found = NULL THEN <<Msg("not_found", 0, searchNumber, <<>>)>>
        ELSE <<Msg("course", 0, h[found].courseData.courseNumber,
                                h[found].courseData.courseTitle)>>
             \o (IF h[found].courseData.prerequisites = <<>>
                   THEN <<Msg("prereq_none", 0, <<>>, <<>>)>>
                 ELSE <<Msg("prereq_header", 0, <<>>, <<>>)>>
                      \o PrintPrerequisites(h, r, h[found].courseData.prerequisites, 1))

----------------------------------------------------------------------------
(* Inputs *)

BoundedSeq(S, n) == UNION {[1..k -> S] : k \in 0..n}

\* Lines of the course files of the program-level specification.
LineSamples ==
    { Str(<<"B", ",", "x">>),
      Str(<<"a", ",", "y", ",", "B", ",">>),
      Str(<<"B", ",", "z", ",", "a", ",", " ", ",", "c", "\r">>),
      Str(<<"A", ",">>),
      Str(<<",", "t">>),
      Str(<<" ">>) }

\* What the user may type as a file name.
FileInputs ==
    {NoFile, File("missing", <<>>)}
        \cup {File("data", l) : l \in BoundedSeq(LineSamples, MaxLines)}

\* What the user may type as a course number.
SearchInputs ==
    {EmptyString, Str(<<"a">>), Str(<<"b">>), Str(<<"Z">>)}

\* Courses handed to insert in the store-level specification.
CourseSamples ==
    {MakeCourse(k, Str(<<"x">>), <<>>) : k \in {Str(<<"A">>), Str(<<"A", "B">>),
                                               Str(<<"B">>), Str(<<"a">>)}}
        \cup {MakeCourse(k, Str(<<"y">>), <<Str(<<"A">>)>>) : k \in {Str(<<"A">>), Str(<<"B">>)}}

\* Keys looked up in the store-level specification.
KeySamples == {c.courseNumber : c \in CourseSamples} \cup {Str(<<"Z">>)}

\* Characters of the lines of the line-level specification.
Alphabet == {Ord("A"), Ord("B"), Comma, Ord(" ")}

AllLines == BoundedSeq(Alphabet, MaxLineLen)

----------------------------------------------------------------------------
(* The latest operation *)

NoCourse == MakeCourse(<<>>, <<>>, <<>>)

\* op: the operation; arg: its string input; course: the course inserted;
\* hit: for an insert, whether the course number was in the tree before it;
\* for a load, whether the file is the one loaded by the previous load.
Op(op, arg, course, hit) == [op |-> op, arg |-> arg, course |-> course, hit |-> hit]

----------------------------------------------------------------------------
(* main *)

Init ==
    /\ heap = <<>>
    /\ root = NULL
    /\ released = <<>>
    /\ dataLoaded = FALSE
    /\ fileName = NoFile
    /\ out = <<>>
    /\ calls = {}
    /\ lastOp = Op("start", <<>>, NoCourse, FALSE)
    /\ everLoaded = FALSE
    /\ inserted = {}
    /\ input = <<>>
    /\ lineNumber = 0
    /\ pc = "menu"

\* userChoice == "1"
ChooseLoad(file) ==
    /\ pc = "menu"
    /\ fileName' = file
    /\ IF file.name = ""
         THEN /\ out' = <<Msg("empty_file_name", 0, <<>>, <<>>)>>
              /\ calls' = {}
              /\ released' = <<>>
              /\ lastOp' = Op("empty_name", <<>>, NoCourse, FALSE)
              /\ UNCHANGED <<heap, root, dataLoaded, everLoaded, inserted>>
       ELSE \E r \in {LoadCoursesFromFile(file, heap, root, inserted)} :
                /\ heap' = r.st.heap
                /\ root' = r.st.root
                /\ released' = r.st.released
                /\ out' = r.st.out
                /\ calls' = r.st.calls
                /\ inserted' = r.st.inserted
                /\ dataLoaded' = r.result
                /\ everLoaded' = (everLoaded \/ r.result)
                /\ lastOp' = Op("load", <<>>, NoCourse, dataLoaded /\ fileName = file)
    /\ UNCHANGED <<input, lineNumber, pc>>

\* userChoice == "2" without the dataLoaded test.
ChooseListUngated ==
    /\ pc = "menu"
    /\ out' = <<Msg("list_header", 0, <<>>, <<>>)>> \o PrintInOrder(heap, root)
    /\ calls' = {"printInOrder"}
    /\ released' = <<>>
    /\ lastOp' = Op("list", <<>>, NoCourse, FALSE)
    /\ UNCHANGED <<heap, root, dataLoaded, fileName, everLoaded, inserted,
                   input, lineNumber, pc>>

\* userChoice == "2"
ChooseList ==
    /\ pc = "menu"
    /\ IF ~dataLoaded
         THEN /\ out' = <<Msg("load_first", 0, <<>>, <<>>)>>
              /\ calls' = {}
       ELSE /\ out' = <<Msg("list_header", 0, <<>>, <<>>)>> \o PrintInOrder(heap, root)
            /\ calls' = {"printInOrder"}
    /\ released' = <<>>
    /\ lastOp' = Op("list", <<>>, NoCourse, FALSE)
    /\ UNCHANGED <<heap, root, dataLoaded, fileName, everLoaded, inserted,
                   input, lineNumber, pc>>

\* userChoice == "3"; searchNumber is read only when data is loaded.
ChooseDescribe(searchNumber) ==
    /\ pc = "menu"
    /\ IF ~dataLoaded
         THEN /\ out' = <<Msg("load_first", 0, <<>>, <<>>)>>
              /\ calls' = {}
              /\ lastOp' = Op("describe", <<>>, NoCourse, FALSE)
       ELSE IF searchNumber = <<>>
         THEN /\ out' = <<Msg("empty_course_number", 0, <<>>, <<>>)>>
              /\ calls' = {}
              /\ lastOp' = Op("describe", searchNumber, NoCourse, FALSE)
       ELSE /\ out' = PrintCourseInformation(heap, root, searchNumber)
            /\ calls' = {"search"}
            /\ lastOp' = Op("describe", searchNumber, NoCourse, FALSE)
    /\ released' = <<>>
    /\ UNCHANGED <<heap, root, dataLoaded, fileName, everLoaded, inserted,
                   input, lineNumber, pc>>

\* userChoice == "9"
ChooseExit ==
    /\ pc = "menu"
    /\ pc' = "exit"
    /\ out' = <<Msg("goodbye", 0, <<>>, <<>>)>>
    /\ calls' = {}
    /\ released' = <<>>
    /\ lastOp' = Op("exit", <<>>, NoCourse, FALSE)
    /\ UNCHANGED <<heap, root, dataLoaded, fileName, everLoaded, inserted,
                   input, lineNumber>>

\* any other userChoice
ChooseInvalid ==
    /\ pc = "menu"
    /\ out' = <<Msg("invalid_choice", 0, <<>>, <<>>)>>
    /\ calls' = {}
    /\ released' = <<>>
    /\ lastOp' = Op("invalid", <<>>, NoCourse, FALSE)
    /\ UNCHANGED <<heap, root, dataLoaded, fileName, everLoaded, inserted,
                   input, lineNumber, pc>>

Next ==
    \/ \E file \in FileInputs : ChooseLoad(file)
    \/ ChooseList
    \/ \E searchNumber \in SearchInputs : ChooseDescribe(searchNumber)
    \/ ChooseExit
    \/ ChooseInvalid

Spec == Init /\ [][Next]_vars

----------------------------------------------------------------------------
(* CourseBST used on its own *)

InitStore ==
    /\ heap = <<>>
    /\ root = NULL
    /\ released = <<>>
    /\ dataLoaded = FALSE
    /\ fileName = NoFile
    /\ out = <<>>
    /\ calls = {}
    /\ lastOp = Op("start", <<>>, NoCourse, FALSE)
    /\ everLoaded = FALSE
    /\ inserted = {}
    /\ input = <<>>
    /\ lineNumber = 0
    /\ pc = "store"

\* tree.insert(course)
StoreInsert(course) ==
    /\ pc = "store"
    /\ \/ Cardinality(DOMAIN heap) < MaxNodes
       \/ SearchStore(heap, root, course.courseNumber) # NULL
    /\ \E res \in {InsertStore(heap, root, course)} :
           /\ heap' = res.heap
           /\ root' = res.root
    /\ inserted' = inserted \cup {course.courseNumber}
    /\ released' = <<>>
    /\ out' = <<>>
    /\ calls' = {"insert"}
    /\ lastOp' = Op("insert", course.courseNumber, course,
                    SearchStore(heap, root, course.courseNumber) # NULL)
    /\ UNCHANGED <<dataLoaded, fileName, everLoaded, input, lineNumber, pc>>

\* tree.search(targetNumber): out holds the value returned.
StoreSearch(targetNumber) ==
    /\ pc = "store"
    /\ LET found == SearchStore(heap, root, targetNumber)
       IN  out' = <<IF found = NULL THEN Msg("nullptr", 0, <<>>, <<>>)
                    ELSE Msg("course", 0, heap[found].courseData.courseNumber,
                                          heap[found].courseData.courseTitle)>>
    /\ released' = <<>>
    /\ calls' = {"search"}
    /\ lastOp' = Op("search", targetNumber, NoCourse, FALSE)
    /\ UNCHANGED <<heap, root, dataLoaded, fileName, everLoaded, inserted,
                   input, lineNumber, pc>>

\* tree.printInOrder()
StorePrintInOrder ==
    /\ pc = "store"
    /\ out' = PrintInOrder(heap, root)
    /\ released' = <<>>
    /\ calls' = {"printInOrder"}
    /\ lastOp' = Op("print", <<>>, NoCourse, FALSE)
    /\ UNCHANGED <<heap, root, dataLoaded, fileName, everLoaded, inserted,
                   input, lineNumber, pc>>

\* tree.clear()
StoreClear ==
    /\ pc = "store"
    /\ \E res \in {ClearStore(heap, root)} :
           /\ heap' = res.heap
           /\ root' = res.root
           /\ released' = res.released
    /\ inserted' = {}
    /\ out' = <<>>
    /\ calls' = {"clear"}
    /\ lastOp' = Op("clear", <<>>, NoCourse, FALSE)
    /\ UNCHANGED <<dataLoaded, fileName, everLoaded, input, lineNumber, pc>>

NextStore ==
    \/ \E course \in CourseSamples : StoreInsert(course)
    \/ \E targetNumber \in KeySamples : StoreSearch(targetNumber)
    \/ StorePrintInOrder
    \/ StoreClear

SpecStore == InitStore /\ [][NextStore]_vars

----------------------------------------------------------------------------
(* The loader's loop, one line at a time *)

\* The state after the file was opened and the tree cleared.
InitLine ==
    /\ heap = <<>>
    /\ root = NULL
    /\ released = <<>>
    /\ dataLoaded = FALSE
    /\ fileName = File("data", <<>>)
    /\ out = <<>>
    /\ calls = {"clear"}
    /\ lastOp = Op("open", <<>>, NoCourse, FALSE)
    /\ everLoaded = FALSE
    /\ inserted = {}
    /\ input \in {<<l>> : l \in AllLines}
    /\ lineNumber = 0
    /\ pc = "loading"

\* One iteration of while (getline(inputFile, line)).
ReadLine ==
    /\ pc = "loading"
    /\ input # <<>>
    /\ lineNumber' = lineNumber + 1
    /\ input' = Tail(input)
    /\ \E st \in {ProcessLine(StoreState(heap, root, <<>>, <<>>, {}, inserted),
                             Head(input), lineNumber + 1)} :
           /\ heap' = st.heap
           /\ root' = st.root
           /\ released' = st.released
           /\ out' = st.out
           /\ calls' = st.calls
           /\ inserted' = st.inserted
    /\ lastOp' = Op("line", Head(input), NoCourse, FALSE)
    /\ UNCHANGED <<dataLoaded, fileName, everLoaded, pc>>

\* getline fails at the end of the file: close, report, return true.
EndOfFile ==
    /\ pc = "loading"
    /\ input = <<>>
    /\ pc' = "loaded"
    /\ out' = <<Msg("loaded", 0, <<>>, <<>>)>>
    /\ calls' = {}
    /\ released' = <<>>
    /\ lastOp' = Op("eof", lastOp.arg, NoCourse, FALSE)
    /\ UNCHANGED <<heap, root, dataLoaded, fileName, everLoaded, inserted,
                   input, lineNumber>>

NextLine == ReadLine \/ EndOfFile

SpecLine == InitLine /\ [][NextLine]_vars

----------------------------------------------------------------------------
(* Notions used to state the properties *)

\* The fields of a line: the text between consecutive delimiters, the text
\* before the first and the text after the last one (possibly empty).
RECURSIVE Fields(_)
Fields(line) ==
    LET hits == {i \in 1..Len(line) : line[i] = Comma}
    IN  IF hits = {} THEN <<line>>
        ELSE LET q == CHOOSE i \in hits : \A j \in hits : i <= j
             IN  <<SubSeq(line, 1, q - 1)>> \o Fields(SubSeq(line, q + 1, Len(line)))

NonEmpty(s) == s # <<>>

\* Fields 3..N of a line, trimmed, without the empty ones.
FieldPrerequisites(line) ==
    LET f == Fields(line)
    IN  SelectSeq([i \in 1..(Len(f) - 2) |-> Trim(f[i + 2])], NonEmpty)

\* A line with a course number and a title.
WellFormed(line) ==
    LET f == Fields(line)
    IN  Len(f) >= 2 /\ Trim(f[1]) # <<>> /\ Trim(f[2]) # <<>>

\* The course a well-formed line describes.
LineCourse(line) ==
    LET f == Fields(line)
    IN  MakeCourse(Trim(f[1]), Trim(f[2]), FieldPrerequisites(line))

\* The courses a sequence of lines leaves in the store: for each course
\* number, the course of the last well-formed line that has it.
ExpectedCourses(lines) ==
    LET good == {i \in 1..Len(lines) : WellFormed(lines[i])}
        last == {i \in good : \A j \in good :
                     LineCourse(lines[j]).courseNumber = LineCourse(lines[i]).courseNumber
                         => j <= i}
    IN  {LineCourse(lines[i]) : i \in last}

\* The course numbers of a listing.
ListedNumbers(o) == [i \in 1..Len(o) |-> o[i].a]

StrictlyAscending(keys) ==
    \A i \in 1..(Len(keys) - 1) : StrLess(keys[i], keys[i + 1])

NoDuplicates(s) == \A i, j \in 1..Len(s) : i # j => s[i] # s[j]

\* The courses held by the nodes of the heap.
StoredCourses(h) == {h[id].courseData : id \in DOMAIN h}

\* The tree below a node, without the node addresses.
RECURSIVE TreeOf(_, _)
TreeOf(h, node) ==
    IF node = NULL THEN <<"leaf">>
    ELSE <<"node", h[node].courseData,
           TreeOf(h, h[node].leftChild), TreeOf(h, h[node].rightChild)>>

----------------------------------------------------------------------------
(* Properties *)

\* C1: whatever the order of the inserts into an empty store, printInOrder
\* emits each inserted course number exactly once, in strictly ascending
\* lexicographic order (and "No courses loaded." when nothing was inserted).
C1_SortedListing ==
    lastOp.op = "print" =>
        IF inserted = {} THEN out = <<Msg("no_courses", 0, <<>>, <<>>)>>
        ELSE /\ \A i \in 1..Len(out) : out[i].msg = "course"
             /\ StrictlyAscending(ListedNumbers(out))
             /\ Range(ListedNumbers(out)) = inserted
             /\ Len(out) = Cardinality(inserted)

\* A listing of three courses from a tree whose root was not the smallest
\* nor the largest key inserted.
C1_Witness ==
    /\ lastOp.op = "print"
    /\ Len(out) = 3
    /\ root # NULL
    /\ heap[root].leftChild # NULL
    /\ heap[root].rightChild # NULL

\* C2: an insert of a course number already present keeps the set of nodes,
\* the root and every child link, replaces the title and the prerequisites of
\* the node with that number, leaves every other node's course unchanged and
\* leaves exactly one node with that number.
C2_Upsert ==
    [][ (lastOp'.op = "insert"
            /\ SearchStore(heap, root, lastOp'.course.courseNumber) # NULL)
        => LET c == lastOp'.course
               n == SearchStore(heap, root, c.courseNumber)
           IN  /\ root' = root
               /\ DOMAIN heap' = DOMAIN heap
               /\ \A id \in DOMAIN heap :
                    /\ heap'[id].leftChild = heap[id].leftChild
                    /\ heap'[id].rightChild = heap[id].rightChild
                    /\ IF id = n THEN heap'[id].courseData = c
                       ELSE heap'[id].courseData = heap[id].courseData
               /\ Cardinality({id \in DOMAIN heap' :
                      heap'[id].courseData.courseNumber = c.courseNumber}) = 1
      ]_vars

\* An insert of a present course number into a tree of at least two nodes.
C2_Witness ==
    /\ lastOp.op = "insert"
    /\ lastOp.hit
    /\ Cardinality(DOMAIN heap) >= 2
    /\ \E id \in DOMAIN heap : heap[id].courseData = lastOp.course

\* C3: after a load of a file that cannot be opened the load has failed and
\* the store is empty, whatever it held before the request.
C3_EmptyAfterFailedOpen ==
    (lastOp.op = "load" /\ ~IsOpen(fileName))
        => /\ ~dataLoaded
           /\ root = NULL
           /\ DOMAIN heap = {}

\* C4: a non-blank line without a delimiter gets the format diagnostic; a
\* line whose course number is followed by the delimiter and a title that is
\* empty after trimming gets the missing-field diagnostic and not the format
\* diagnostic; in both cases nothing is inserted.
C4_Diagnostics ==
    lastOp.op = "line" =>
        LET line == lastOp.arg
            f == Fields(line)
        IN  /\ (Trim(line) # <<>> /\ Len(f) = 1)
                 => /\ Len(out) = 2
                    /\ out[1].msg = "format_error"
                    /\ DOMAIN heap = {}
            /\ (Len(f) >= 2 /\ Trim(f[1]) # <<>> /\ Trim(f[2]) = <<>>)
                 => /\ out = <<Msg("missing_field", 1, <<>>, <<>>)>>
                    /\ DOMAIN heap = {}

\* C5: a describe request whose input equals, letter case ignored, the number
\* of a course in the store finds that course.
C5_CaseInsensitiveLookup ==
    (lastOp.op = "describe" /\ dataLoaded /\ lastOp.arg # <<>>)
        => \A id \in DOMAIN heap :
              ToUpper(heap[id].courseData.courseNumber) = ToUpper(lastOp.arg)
                  => /\ out[1].msg = "course"
                     /\ out[1].a = heap[id].courseData.courseNumber

\* C6: a load of the file that the previous load has loaded leaves the same
\* tree (courses, titles, prerequisites, shape) and the same listing, and the
\* nodes allocated are exactly the nodes of the tree; the requests that may
\* come between the two loads leave the store as it is.
C6_IdempotentReload ==
    [][ /\ (lastOp'.op = "load" /\ dataLoaded /\ dataLoaded' /\ fileName' = fileName)
           => /\ TreeOf(heap', root') = TreeOf(heap, root)
              /\ PrintInOrder(heap', root') = PrintInOrder(heap, root)
              /\ Cardinality(DOMAIN heap') = Len(InOrderHelper(heap', root'))
              /\ Cardinality(DOMAIN heap') = Cardinality(ExpectedCourses(fileName'.lines))
        /\ lastOp'.op \in {"list", "describe", "invalid", "empty_name"}
           => /\ heap' = heap
              /\ root' = root
              /\ dataLoaded' = dataLoaded
      ]_vars

\* The second load in a row of a file with at least two courses.
C6_Witness ==
    /\ lastOp.op = "load"
    /\ lastOp.hit
    /\ dataLoaded
    /\ Len(released) >= 2
    /\ Cardinality(DOMAIN heap) >= 2

\* C7 as stated: a list or describe request before any successful load is
\* refused without reading the store, and one made after a successful load is
\* served.
C7_ServedOnceLoaded ==
    lastOp.op \in {"list", "describe"} =>
        IF everLoaded THEN out[1].msg # "load_first"
        ELSE out = <<Msg("load_first", 0, <<>>, <<>>)>> /\ calls = {}

\* C7 amended: every step leaves dataLoaded false while no load has succeeded
\* and a load leaves in it the outcome of the attempt; no other choice
\* changes it; a list or describe request is refused
\* with the guidance message, without reading the store, when dataLoaded is
\* false, and served when it is true.
C7_ServedWhileLoaded ==
    [][ /\ ~everLoaded' => ~dataLoaded'
        /\ lastOp'.op = "load" => dataLoaded' = IsOpen(fileName')
        /\ lastOp'.op \in {"invalid", "empty_name"} => dataLoaded' = dataLoaded
        /\ lastOp'.op \in {"list", "describe"}
             => /\ dataLoaded' = dataLoaded
                /\ IF dataLoaded
                     THEN /\ out'[1].msg # "load_first"
                          /\ lastOp'.op = "list" => calls' = {"printInOrder"}
                   ELSE /\ out' = <<Msg("load_first", 0, <<>>, <<>>)>>
                        /\ calls' = {}
      ]_vars

\* A list request refused after a failed load that followed a successful one.
C7_Witness ==
    /\ lastOp.op = "list"
    /\ everLoaded
    /\ ~dataLoaded
    /\ root # NULL
    /\ out = <<Msg("load_first", 0, <<>>, <<>>)>>

\* C8: the prerequisites stored for an inserted line are fields 3..N of the
\* line that are non-empty after trimming, trimmed, in their order.
C8_Prerequisites ==
    (lastOp.op = "line" /\ "insert" \in calls)
        => /\ root # NULL
           /\ heap[root].courseData.prerequisites = FieldPrerequisites(lastOp.arg)
           /\ \A i \in 1..Len(heap[root].courseData.prerequisites) :
                 heap[root].courseData.prerequisites[i] # <<>>

\* A line with a prerequisite followed by a trailing delimiter: one
\* prerequisite is stored.
C8_Witness ==
    /\ lastOp.op = "line"
    /\ "insert" \in calls
    /\ Len(Fields(lastOp.arg)) = 4
    /\ Fields(lastOp.arg)[4] = <<>>
    /\ Len(heap[root].courseData.prerequisites) = 1

\* C9: a load of a readable file returns true whatever its lines, and leaves
\* in the store exactly the courses of the well-formed lines, the last line
\* winning for a repeated course number, one node per course number.
C9_LoadSkipsBadLines ==
    (lastOp.op = "load" /\ IsOpen(fileName))
        => /\ dataLoaded
           /\ out[Len(out)].msg = "loaded"
           /\ StoredCourses(heap) = ExpectedCourses(fileName.lines)
           /\ Cardinality(DOMAIN heap) = Cardinality(ExpectedCourses(fileName.lines))
           /\ Len(InOrderHelper(heap, root)) = Cardinality(DOMAIN heap)

\* A load whose first line was skipped with a diagnostic and whose last line
\* was inserted.
C9_Witness ==
    /\ lastOp.op = "load"
    /\ dataLoaded
    /\ Len(fileName.lines) = MaxLines
    /\ ~WellFormed(fileName.lines[1])
    /\ WellFormed(fileName.lines[MaxLines])
    /\ Len(out) >= 2
    /\ root # NULL

\* C10: clear deletes every node of the tree exactly once and leaves the
\* empty store: no node allocated, root null, every search a miss; on an
\* empty store it deletes nothing.
C10_ClearReleasesOnce ==
    [][ lastOp'.op = "clear"
        => /\ NoDuplicates(released')
           /\ Range(released') = DOMAIN heap
           /\ DOMAIN heap' = {}
           /\ root' = NULL
           /\ \A k \in KeySamples : SearchStore(heap', root', k) = NULL
           /\ (root = NULL => released' = <<>>)
      ]_vars

\* A clear of a tree of at least three nodes.
C10_Witness ==
    /\ lastOp.op = "clear"
    /\ Len(released) >= 3
    /\ DOMAIN heap = {}

====
